---------------------------- MODULE Spec2Model ----------------------------
(***************************************************************************)
(* ICMPv6 Router Solicitation (RFC 4861, section 4.1) as implemented in    *)
(* framework/src/packets/icmp/v6/ndp/router_solicit.rs.                    *)
(*                                                                         *)
(* The state machine is the parse pipeline of the file's test              *)
(*   RawPacket::from_bytes -> parse::<Ethernet> -> parse::<Ipv6>           *)
(*     -> parse::<Icmpv6<()>> -> downcast::<RouterSolicitation>            *)
(* followed by any number of reserved() and Display calls on the typed     *)
(* envelope.  The payload type, its size(), reserved(), fmt() and          *)
(* payload() are translated from the file.  The layer parsers and the      *)
(* downcast live in other files of the repository; they are modelled from  *)
(* the specification (sections 4.2-4.4, 6 and 7).                          *)
(*                                                                         *)
(* Offsets are 0-based as in the code; mem[i + 1] is the byte at offset i. *)
(* A u32 is kept as two 16-bit halves [hi, lo] (value hi * 2^16 + lo), so  *)
(* that the whole 32-bit range is covered without leaving TLC's integers.  *)
(***************************************************************************)
EXTENDS Integers, Sequences, FiniteSets, TLC

VARIABLES
    hostLE,     \* TRUE on a little-endian target, FALSE on a big-endian one
    bytes,      \* the byte array handed to RawPacket::from_bytes
    mbuf,       \* the packet buffer: a sequence of bytes
    pc,         \* position in the pipeline
    ran,        \* the stages executed so far, in order
    offset,     \* offset of the header of the layer parsed last
    payload,    \* Icmpv6<P>.payload: offset of the typed payload
    error,      \* the error the run failed with, "none" otherwise
    generic,    \* what the Icmpv6<()> envelope showed before the downcast
    returned,   \* <<v>>: the value the last reserved() call returned
    display,    \* the output of the last Display call
    oob,        \* TRUE once an accessor has read outside the buffer
    reads       \* number of accessor calls made on the typed envelope

vars == <<hostLE, bytes, mbuf, pc, ran, offset, payload, error, generic,
          returned, display, oob, reads>>

----------------------------------------------------------------------------
(* Bounds and inputs *)

MaxReads == 2

\* values an out-of-bounds read may find in the memory next to the buffer
AdjacentBytes == {0, 255}

TypeBytes == {133, 134}
VersionBytes == {96, 64}
ChecksumInputs == {<<245, 12>>, <<0, 10>>}
ReservedInputs == {<<a, b, c, d>> : a \in {0, 1, 255}, b \in {0, 2},
                                    c \in {0, 128}, d \in {0, 1, 255}}

----------------------------------------------------------------------------
(* Wire layout *)

ETHERNET_HEADER_SIZE == 14
IPV6_HEADER_SIZE == 40
ICMPV6_HEADER_SIZE == 4

ROUTER_SOLICIT_PACKET ==
    << 0, 0, 0, 0, 0, 1,
       0, 0, 0, 0, 0, 2,
       134, 221,
       96, 0, 0, 0,
       0, 16,
       58,
       255,
       254, 128, 0, 0, 0, 0, 0, 0, 212, 240, 69, 255, 254, 12, 102, 75,
       255, 2, 0, 0, 0, 0, 0, 0, 0, 0, 0, 0, 0, 0, 0, 1,
       133,
       0,
       245, 12,
       0, 0, 0, 0,
       1, 1, 112, 58, 203, 27, 249, 122 >>

RouterSolicitationType == 133

\* offset of the ICMPv6 header in the test packet
IcmpOffset == ETHERNET_HEADER_SIZE + IPV6_HEADER_SIZE

\* the test packet with the IPv6 version byte, the type tag, the checksum
\* and the reserved field replaced, cut to len bytes
InputPacket(len, v, t, ck, r) ==
    LET full == [i \in 1..Len(ROUTER_SOLICIT_PACKET) |->
                   CASE i = ETHERNET_HEADER_SIZE + 1 -> v
                     [] i = IcmpOffset + 1 -> t
                     [] i = IcmpOffset + 3 -> ck[1]
                     [] i = IcmpOffset + 4 -> ck[2]
                     [] i \in (IcmpOffset + 5)..(IcmpOffset + 8) ->
                            r[i - (IcmpOffset + 4)]
                     [] OTHER -> ROUTER_SOLICIT_PACKET[i]]
    IN  SubSeq(full, 1, len)

\* the byte arrays the pipeline is run on
Inputs ==
    {InputPacket(len, v, t, ck, r) :
        len \in 0..Len(ROUTER_SOLICIT_PACKET), v \in VersionBytes,
        t \in TypeBytes, ck \in ChecksumInputs, r \in ReservedInputs}

----------------------------------------------------------------------------
(* Integers of the target *)

U32(h, l) == [hi |-> h, lo |-> l]

\* the byte at offset i, or what lies next to the buffer when i is outside
ByteAt(mem, i, adj) == IF i >= 0 /\ i < Len(mem) THEN mem[i + 1] ELSE adj

\* u32::swap_bytes
swap_bytes(x) ==
    LET v3 == x.hi \div 256
        v2 == x.hi % 256
        v1 == x.lo \div 256
        v0 == x.lo % 256
    IN  U32(v0 * 256 + v1, v2 * 256 + v3)

\* u32::from_be on a little-endian target: the conversion is left out
from_be_identity(x, le) == x

\* u32::from_be: swaps the bytes on a little-endian target, no-op otherwise
from_be(x, le) == IF le THEN swap_bytes(x) ELSE x

\* the load of a u32 from 4 bytes of memory in the target's byte order
load_u32(mem, p, le, adj) ==
    LET b0 == ByteAt(mem, p, adj)
        b1 == ByteAt(mem, p + 1, adj)
        b2 == ByteAt(mem, p + 2, adj)
        b3 == ByteAt(mem, p + 3, adj)
    IN  IF le THEN U32(b3 * 256 + b2, b1 * 256 + b0)
              ELSE U32(b0 * 256 + b1, b2 * 256 + b3)

\* the store of a u32 to 4 bytes of memory in the target's byte order
store_u32(mem, p, le, x) ==
    LET v3 == x.hi \div 256
        v2 == x.hi % 256
        v1 == x.lo \div 256
        v0 == x.lo % 256
        img == IF le THEN <<v0, v1, v2, v3>> ELSE <<v3, v2, v1, v0>>
    IN  [i \in 1..Len(mem) |->
            IF i - 1 >= p /\ i - 1 < p + 4 THEN img[i - p] ELSE mem[i]]

----------------------------------------------------------------------------
(* struct RouterSolicitation and its accessors *)

\* size_of::<RouterSolicitation>(): one packed u32
RouterSolicitation_sizeof == 4

\* a size() copied from a payload with an 8-byte fixed part
size_of_wider_payload == 4 + 4

\* a size() given in bits
size_in_bits == 4 * 8

\* a size() that counts half of the reserved field
size_of_half_field == 4 - 2

\* Icmpv6Payload::size()
RouterSolicitation_size == 4

\* the offsets a read of payload().reserved touches
reserved_span(p) == {p + i : i \in 0..(RouterSolicitation_sizeof - 1)}

\* reserved() storing the converted value back through the &mut
reserved_write_back(mem, p, le, adj) ==
    LET v == from_be(load_u32(mem, p, le, adj), le)
    IN  [value |-> v,
         mem |-> store_u32(mem, p, le, v),
         oob |-> \E i \in reserved_span(p) : i < 0 \/ i >= Len(mem)]

\* Icmpv6<RouterSolicitation>::reserved over memory mem with the payload at
\* offset p: the value returned, the memory afterwards, and whether the read
\* left the buffer
reserved(mem, p, le, adj) ==
    [value |-> from_be(load_u32(mem, p, le, adj), le),
     mem |-> mem,
     oob |-> \E i \in reserved_span(p) : i < 0 \/ i >= Len(mem)]

----------------------------------------------------------------------------
(* The layers below the payload: header overlays with a bounds check *)

Ok(off) == [ok |-> TRUE, error |-> "none", offset |-> off]
Err(e) == [ok |-> FALSE, error |-> e, offset |-> 0]

\* parse::<Ethernet>: the frame header lies at the start of the buffer
Ethernet_parse(mem) ==
    IF Len(mem) < ETHERNET_HEADER_SIZE THEN Err("TooShort") ELSE Ok(0)

\* parse::<Ipv6> without the length check of the overlay
Ipv6_parse_unchecked(mem, envelope) ==
    LET off == envelope + ETHERNET_HEADER_SIZE
    IN  IF ByteAt(mem, off, 0) \div 16 # 6 THEN Err("MalformedHeader")
        ELSE Ok(off)

\* parse::<Ipv6> after an envelope whose header lies at envelope
Ipv6_parse(mem, envelope) ==
    LET off == envelope + ETHERNET_HEADER_SIZE
    IN  IF Len(mem) - off < IPV6_HEADER_SIZE THEN Err("TooShort")
        ELSE IF mem[off + 1] \div 16 # 6 THEN Err("MalformedHeader")
        ELSE Ok(off)

\* parse::<Icmpv6<()>> after an IPv6 header at envelope
Icmpv6_parse(mem, envelope) ==
    LET off == envelope + IPV6_HEADER_SIZE
    IN  IF Len(mem) - off < ICMPV6_HEADER_SIZE THEN Err("TooShort")
        ELSE Ok(off)

\* a downcast that compares the type tag with the payload type asked for
downcast_checked(mem, off) ==
    LET p == off + ICMPV6_HEADER_SIZE
    IN  IF mem[off + 1] # RouterSolicitationType
        THEN [ok |-> FALSE, error |-> "TypeMismatch", offset |-> off,
              payload |-> 0, mem |-> mem]
        ELSE IF Len(mem) - p < RouterSolicitation_size
        THEN [ok |-> FALSE, error |-> "TooShort", offset |-> off,
              payload |-> 0, mem |-> mem]
        ELSE [ok |-> TRUE, error |-> "none", offset |-> off,
              payload |-> p, mem |-> mem]

\* a downcast that takes the payload for the envelope's header
downcast_shifted(mem, off) ==
    LET p == off + ICMPV6_HEADER_SIZE
    IN  IF Len(mem) - p < RouterSolicitation_size
        THEN [ok |-> FALSE, error |-> "TooShort", offset |-> off,
              payload |-> 0, mem |-> mem]
        ELSE [ok |-> TRUE, error |-> "none", offset |-> p,
              payload |-> p, mem |-> mem]

\* Icmpv6<()>::downcast::<RouterSolicitation>: the same bytes, with the
\* payload overlay placed after the ICMPv6 header; the type tag is not read
downcast(mem, off) ==
    LET p == off + ICMPV6_HEADER_SIZE
    IN  IF Len(mem) - p < RouterSolicitation_size
        THEN [ok |-> FALSE, error |-> "TooShort", offset |-> off,
              payload |-> 0, mem |-> mem]
        ELSE [ok |-> TRUE, error |-> "none", offset |-> off,
              payload |-> p, mem |-> mem]

\* the common ICMPv6 fields of an envelope whose header lies at off
msg_type(mem, off) == mem[off + 1]
code(mem, off) == mem[off + 2]
checksum(mem, off) == mem[off + 3] * 256 + mem[off + 4]

\* where the options begin, and the bytes they hold
options_offset(p) == p + RouterSolicitation_size
options(mem, p) == SubSeq(mem, options_offset(p) + 1, Len(mem))

----------------------------------------------------------------------------
(* Formatting *)

HexChars == <<"0", "1", "2", "3", "4", "5", "6", "7", "8", "9",
              "a", "b", "c", "d", "e", "f">>

RECURSIVE fmt_decimal(_)
\* Display of an unsigned integer: decimal digits, no padding
fmt_decimal(n) ==
    IF n < 10 THEN <<HexChars[n + 1]>>
    ELSE Append(fmt_decimal(n \div 10), HexChars[(n % 10) + 1])

\* a u32 divided by ten, and the remainder
div10(x) ==
    LET l == (x.hi % 10) * 65536 + x.lo
    IN  U32(x.hi \div 10, l \div 10)
rem10(x) == ((x.hi % 10) * 65536 + x.lo) % 10

RECURSIVE fmt_decimal_u32(_)
\* Display of a u32
fmt_decimal_u32(x) ==
    IF x.hi = 0 /\ x.lo < 10 THEN <<HexChars[x.lo + 1]>>
    ELSE Append(fmt_decimal_u32(div10(x)), HexChars[rem10(x) + 1])

RECURSIVE fmt_lower_hex(_)
\* LowerHex of an unsigned integer: hex digits, no padding
fmt_lower_hex(n) ==
    IF n < 16 THEN <<HexChars[n + 1]>>
    ELSE Append(fmt_lower_hex(n \div 16), HexChars[(n % 16) + 1])

RECURSIVE pad_zero(_, _)
\* the 0 flag with a width: zeros on the left up to width characters
pad_zero(chars, width) ==
    IF Len(chars) >= width THEN chars ELSE pad_zero(<<"0">> \o chars, width)

\* Display of the type tag msg_type() returns
fmt_msg_type(t) == fmt_decimal(t)

\* fmt with the checksum written as {:x}, without the width
fmt_unpadded(mem, off, p, le, adj) ==
    LET r == reserved(mem, p, le, adj)
    IN  [out |-> << [label |-> "type: ",
                     text |-> fmt_msg_type(msg_type(mem, off))],
                    [label |-> " code: ",
                     text |-> fmt_decimal(code(mem, off))],
                    [label |-> " checksum: 0x",
                     text |-> fmt_lower_hex(checksum(mem, off))],
                    [label |-> " reserved: ",
                     text |-> fmt_decimal_u32(r.value)] >>,
         mem |-> r.mem,
         oob |-> r.oob]

\* fmt::Display for Icmpv6<RouterSolicitation>:
\*   "type: {} code: {} checksum: 0x{:04x} reserved: {}"
\* as the literal pieces of the format string, each with the text of the
\* argument that follows it
fmt(mem, off, p, le, adj) ==
    LET r == reserved(mem, p, le, adj)
    IN  [out |-> << [label |-> "type: ",
                     text |-> fmt_msg_type(msg_type(mem, off))],
                    [label |-> " code: ",
                     text |-> fmt_decimal(code(mem, off))],
                    [label |-> " checksum: 0x",
                     text |-> pad_zero(fmt_lower_hex(checksum(mem, off)), 4)],
                    [label |-> " reserved: ",
                     text |-> fmt_decimal_u32(r.value)] >>,
         mem |-> r.mem,
         oob |-> r.oob]

----------------------------------------------------------------------------
(* The pipeline *)

Stages == <<"Ethernet", "Ipv6", "Icmpv6", "downcast">>
Terminal == {"Parsed", "Failed"}

\* a Result handed on whatever it holds
unwrap_ignored(r, next) == next

\* Result::unwrap: the value of an Ok, the end of the run on an Err
unwrap(r, next) == IF r.ok THEN next ELSE "Failed"

Init ==
    /\ hostLE \in BOOLEAN
    /\ bytes \in Inputs
    /\ mbuf = <<>>
    /\ pc = "start"
    /\ ran = <<>>
    /\ offset = 0
    /\ payload = 0
    /\ error = "none"
    /\ generic = <<>>
    /\ returned = <<>>
    /\ display = <<>>
    /\ oob = FALSE
    /\ reads = 0

\* RawPacket::from_bytes(&bytes).unwrap()
from_bytes ==
    /\ pc = "start"
    /\ mbuf' = bytes
    /\ pc' = "RawPacket"
    /\ UNCHANGED <<hostLE, bytes, ran, offset, payload, error, generic,
                   returned, display, oob, reads>>

\* packet.parse::<Ethernet>().unwrap()
parse_Ethernet ==
    /\ pc = "RawPacket"
    /\ LET r == Ethernet_parse(mbuf)
       IN  /\ pc' = unwrap(r, "Ethernet")
           /\ error' = r.error
           /\ offset' = r.offset
    /\ ran' = Append(ran, "Ethernet")
    /\ UNCHANGED <<hostLE, bytes, mbuf, payload, generic, returned, display,
                   oob, reads>>

\* ethernet.parse::<Ipv6>().unwrap()
parse_Ipv6 ==
    /\ pc = "Ethernet"
    /\ LET r == Ipv6_parse(mbuf, offset)
       IN  /\ pc' = unwrap(r, "Ipv6")
           /\ error' = r.error
           /\ offset' = r.offset
    /\ ran' = Append(ran, "Ipv6")
    /\ UNCHANGED <<hostLE, bytes, mbuf, payload, generic, returned, display,
                   oob, reads>>

\* ipv6.parse::<Icmpv6<()>>().unwrap()
parse_Icmpv6 ==
    /\ pc = "Ipv6"
    /\ LET r == Icmpv6_parse(mbuf, offset)
       IN  /\ pc' = unwrap(r, "Icmpv6")
           /\ error' = r.error
           /\ offset' = r.offset
           /\ generic' = IF r.ok
                         THEN << [msg_type |-> msg_type(mbuf, r.offset),
                                  code |-> code(mbuf, r.offset),
                                  checksum |-> checksum(mbuf, r.offset),
                                  mbuf |-> mbuf] >>
                         ELSE <<>>
    /\ ran' = Append(ran, "Icmpv6")
    /\ UNCHANGED <<hostLE, bytes, mbuf, payload, returned, display, oob, reads>>

\* icmpv6.downcast::<RouterSolicitation>()
downcast_RouterSolicitation ==
    /\ pc = "Icmpv6"
    /\ LET r == downcast(mbuf, offset)
       IN  /\ pc' = IF r.ok THEN "Parsed" ELSE "Failed"
           /\ error' = r.error
           /\ offset' = r.offset
           /\ payload' = r.payload
           /\ mbuf' = r.mem
    /\ ran' = Append(ran, "downcast")
    /\ UNCHANGED <<hostLE, bytes, generic, returned, display, oob, reads>>

\* solicit.reserved()
call_reserved ==
    /\ pc = "Parsed"
    /\ reads < MaxReads
    /\ \E adj \in AdjacentBytes :
         LET r == reserved(mbuf, payload, hostLE, adj)
         IN  /\ returned' = <<r.value>>
             /\ mbuf' = r.mem
             /\ oob' = (oob \/ r.oob)
    /\ reads' = reads + 1
    /\ UNCHANGED <<hostLE, bytes, pc, ran, offset, payload, error, generic, display>>

\* format!("{}", solicit)
call_fmt ==
    /\ pc = "Parsed"
    /\ reads < MaxReads
    /\ \E adj \in AdjacentBytes :
         LET r == fmt(mbuf, offset, payload, hostLE, adj)
         IN  /\ display' = r.out
             /\ mbuf' = r.mem
             /\ oob' = (oob \/ r.oob)
    /\ reads' = reads + 1
    /\ UNCHANGED <<hostLE, bytes, pc, ran, offset, payload, error, generic, returned>>

Pipeline ==
    \/ from_bytes
    \/ parse_Ethernet
    \/ parse_Ipv6
    \/ parse_Icmpv6
    \/ downcast_RouterSolicitation

Next ==
    \/ Pipeline
    \/ call_reserved
    \/ call_fmt

Spec == Init /\ [][Next]_vars

\* every call of the pipeline returns: none of them suspends
FairSpec == Spec /\ WF_vars(Pipeline)

----------------------------------------------------------------------------
(* Readers used to state the properties of the formatter *)

DecChars == {HexChars[i] : i \in 1..10}
LowerHexChars == {HexChars[i] : i \in 1..16}

DigitOf(ch) == (CHOOSE i \in 1..16 : HexChars[i] = ch) - 1

RECURSIVE parse_decimal(_)
parse_decimal(chars) ==
    IF chars = <<>> THEN 0
    ELSE parse_decimal(SubSeq(chars, 1, Len(chars) - 1)) * 10
         + DigitOf(chars[Len(chars)])

RECURSIVE parse_hex(_)
parse_hex(chars) ==
    IF chars = <<>> THEN 0
    ELSE parse_hex(SubSeq(chars, 1, Len(chars) - 1)) * 16
         + DigitOf(chars[Len(chars)])

RECURSIVE parse_decimal_u32(_)
parse_decimal_u32(chars) ==
    IF chars = <<>> THEN U32(0, 0)
    ELSE LET q == parse_decimal_u32(SubSeq(chars, 1, Len(chars) - 1))
             l == q.lo * 10 + DigitOf(chars[Len(chars)])
         IN  U32(q.hi * 10 + l \div 65536, l % 65536)

\* the big-endian reading of the 4 bytes at offset p
BigEndianAt(mem, p) ==
    U32(mem[p + 1] * 256 + mem[p + 2], mem[p + 3] * 256 + mem[p + 4])

DowncastRan == Len(ran) = Len(Stages)

----------------------------------------------------------------------------
(* Properties *)

\* C1: the 70-byte ROUTER_SOLICIT_PACKET passes every stage of the pipeline,
\* and the envelope it ends in reports msg_type() = 133, code() = 0 and
\* reserved() = 0.
C1_ParseRouterSolicitationPacket ==
    mbuf = ROUTER_SOLICIT_PACKET =>
        /\ pc # "Failed"
        /\ error = "none"
        /\ pc = "Parsed" =>
             /\ msg_type(mbuf, offset) = RouterSolicitationType
             /\ code(mbuf, offset) = 0
             /\ \A adj \in AdjacentBytes :
                  reserved(mbuf, payload, hostLE, adj).value = U32(0, 0)
        /\ returned # <<>> => returned = <<U32(0, 0)>>

C1_Witness ==
    /\ mbuf = ROUTER_SOLICIT_PACKET
    /\ pc = "Parsed"
    /\ returned = <<U32(0, 0)>>

Truncated53 == SubSeq(ROUTER_SOLICIT_PACKET, 1, 53)

\* C2 as stated: the packet cut to 53 bytes fails at the downcast to
\* RouterSolicitation with TooShort, and at no earlier layer.
C2_FailsAtPayloadStage ==
    (mbuf = Truncated53 /\ pc \in Terminal) =>
        /\ pc = "Failed"
        /\ error = "TooShort"
        /\ ran = Stages

\* C2, amended: the packet cut to 53 bytes holds only 39 of the 40 bytes of
\* the IPv6 header, so the run fails with TooShort at the IPv6 stage; the
\* ICMPv6 stage and the downcast never run and no envelope is produced.
C2_FailsAtIpv6Stage ==
    mbuf = Truncated53 =>
        /\ pc \in {"RawPacket", "Ethernet", "Failed"}
        /\ pc = "Failed" => (error = "TooShort" /\ ran = <<"Ethernet", "Ipv6">>)
        /\ Len(ran) <= 2
        /\ returned = <<>>

C2_Witness ==
    /\ mbuf = Truncated53
    /\ pc = "Failed"
    /\ ran = <<"Ethernet", "Ipv6">>

\* C3: the envelope downcast::<RouterSolicitation>() returns shows the
\* msg_type(), code() and checksum() the generic envelope showed before the
\* downcast, over the same unchanged bytes.
C3_DowncastTransparency ==
    pc = "Parsed" =>
        /\ generic # <<>>
        /\ msg_type(mbuf, offset) = generic[1].msg_type
        /\ code(mbuf, offset) = generic[1].code
        /\ checksum(mbuf, offset) = generic[1].checksum
        /\ mbuf = generic[1].mbuf

C3_Witness ==
    /\ pc = "Parsed"
    /\ generic # <<>>
    /\ generic[1].msg_type = 134
    /\ generic[1].checksum = 10

\* C4: reserved() returns the big-endian reading b0*2^24 + b1*2^16 + b2*2^8
\* + b3 of the 4 bytes of the reserved field, whatever they hold: a non-zero
\* field is returned as it is, neither rejected nor zeroed.
C4_ReservedIsBigEndian ==
    pc = "Parsed" =>
        /\ \A adj \in AdjacentBytes :
             reserved(mbuf, payload, hostLE, adj).value
                = BigEndianAt(mbuf, offset + ICMPV6_HEADER_SIZE)
        /\ returned # <<>> =>
             returned[1] = BigEndianAt(mbuf, offset + ICMPV6_HEADER_SIZE)

C4_Witness ==
    /\ pc = "Parsed"
    /\ hostLE
    /\ returned = <<U32(255 * 256 + 2, 128 * 256 + 1)>>

\* C5: size() is 4, the length of the fixed payload on the wire, so that in
\* the 70-byte packet the options begin 4 bytes after the 4-byte ICMPv6
\* header and are exactly the last 8 bytes 01 01 70 3a cb 1b f9 7a.
C5_SizeMatchesWireFormat ==
    (pc = "Parsed" /\ Len(mbuf) = Len(ROUTER_SOLICIT_PACKET)) =>
        /\ options_offset(payload) = offset + ICMPV6_HEADER_SIZE + 4
        /\ options_offset(payload) = payload + RouterSolicitation_sizeof
        /\ options(mbuf, payload) = <<1, 1, 112, 58, 203, 27, 249, 122>>
        /\ options(mbuf, payload) = SubSeq(mbuf, Len(mbuf) - 7, Len(mbuf))

C5_Witness ==
    /\ pc = "Parsed"
    /\ Len(mbuf) = Len(ROUTER_SOLICIT_PACKET)
    /\ options(mbuf, payload) = <<1, 1, 112, 58, 203, 27, 249, 122>>

\* the stage order, and a failure ending the run where it happened
PipelineOrder ==
    /\ ran = SubSeq(Stages, 1, Len(ran))
    /\ pc \in {"start", "RawPacket"} => ran = <<>>
    /\ pc \in {"Ethernet", "Ipv6", "Icmpv6"} => ran[Len(ran)] = pc
    /\ pc = "Parsed" => ran = Stages
    /\ pc = "Failed" => (ran # <<>> /\ error # "none")
    /\ pc # "Failed" => error = "none"

\* one stage per step, only after a success, and nothing after the end
PipelineStep ==
    /\ ran' # ran => (error = "none" /\ pc \notin Terminal
                      /\ ran' = Append(ran, Stages[Len(ran) + 1]))
    /\ pc \in Terminal => (pc' = pc /\ ran' = ran /\ error' = error)

\* C6: the stages run in the order Ethernet, IPv6, ICMPv6, downcast, each
\* only after every earlier one succeeded; a failure ends the run at once in
\* Failed with that layer's error, no later stage runs and none is retried;
\* every run ends in Parsed or in Failed and stays there.
C6_SinglePassPipeline ==
    /\ []PipelineOrder
    /\ [][PipelineStep]_vars
    /\ <>(pc \in Terminal)

C6_Witness ==
    /\ pc = "Failed"
    /\ error = "MalformedHeader"
    /\ ran = <<"Ethernet", "Ipv6">>
    /\ Len(mbuf) = Len(ROUTER_SOLICIT_PACKET)

C9_DisplayFields ==
    display # <<>> =>
        /\ Len(display) = 4
        /\ display[1].label = "type: "
        /\ display[2].label = " code: "
        /\ display[3].label = " checksum: 0x"
        /\ display[4].label = " reserved: "
        /\ parse_decimal(display[1].text) = msg_type(mbuf, offset)
        /\ parse_decimal(display[2].text) = code(mbuf, offset)
        /\ parse_hex(display[3].text) = checksum(mbuf, offset)
        /\ Len(display[3].text) >= 4
        /\ \A i \in 1..Len(display[3].text) :
             display[3].text[i] \in LowerHexChars
        /\ \A i \in 1..Len(display[4].text) :
             display[4].text[i] \in DecChars
        /\ \A adj \in AdjacentBytes :
             parse_decimal_u32(display[4].text)
                = reserved(mbuf, payload, hostLE, adj).value

C9_Witness ==
    /\ display # <<>>
    /\ display[3].text = <<"0", "0", "0", "a">>
    /\ display[4].text = <<"4", "2", "7", "8", "3", "5", "3", "9", "2", "1">>

\* C10: reserved() and the formatter only read: a call leaves every byte of
\* the buffer as it was, the field stays in network byte order, and a later
\* reserved() returns what the earlier one returned.
C10_ReadsLeaveBuffer ==
    [][pc = "Parsed" =>
          /\ mbuf' = mbuf
          /\ returned # <<>> => returned' = returned]_vars

C10_Witness ==
    /\ reads >= 2
    /\ hostLE
    /\ display # <<>>
    /\ returned = <<U32(255 * 256 + 2, 128 * 256 + 1)>>
    /\ BigEndianAt(mbuf, payload) = returned[1]

============================================================================
